---- MODULE Spec2Model ----
(***************************************************************************)
(* Calendly booking sync (calendly_sync.py, calendly_worker.py).           *)
(*                                                                         *)
(* A run of the worker resolves the current user, lists the scheduled      *)
(* events page by page, and for each event fetches its invitees, extracts  *)
(* the bookings, matches each booking to a lead, updates the lead when it  *)
(* is not yet booked and upserts a booking record.  Every call to the      *)
(* provider or to the datastore may fail.                                  *)
(*                                                                         *)
(* Python strings whose characters matter (emails, URIs) are sequences of  *)
(* one-character strings; the other strings are TLA+ strings.              *)
(***************************************************************************)
EXTENDS Integers, Sequences, FiniteSets, TLC

\* ------------------------------------------------------------------ bounds
MaxInvitees == 2    \* invitees the provider holds, over all events
MaxFailures == 1    \* failing calls in one behaviour
PageSize == 1       \* items the provider puts on one page
MaxRows == 2        \* rows of the bookings table the analytics read

VARIABLES
    provider,     \* the provider's response set: event pages, invitee pages
    leads,        \* the leads table: id -> row
    bookings,     \* the bookings table: a sequence of rows
    rs,           \* per worker process: position, locals and statistics
    leadWrites,   \* id -> the update-by-id writes that reached the row, and
                  \*       those among them that found it booked already
    failures,     \* failing calls so far
    probe,        \* one call of extract_booking_info and match_booking_to_lead
                  \* on its own: the input and what came back
    config,       \* the worker's environment: which required settings are set
    sends,        \* the email_stats table: the send_count of each row
    analytics     \* one call of get_booking_analytics: how its queries went
                  \* and what it returned

vars ==
    <<provider, leads, bookings, rs, leadWrites, failures, probe, config, sends,
      analytics>>

\* The worker processes; the runs of one process follow one another.
Procs == {1, 2}
Sequential == {1}
LeadIds == {"L1", "L2"}

\* None, for a string-valued and for a character-sequence-valued field.
NULL == "NULL"
NONE == <<"None">>

\* ------------------------------------------------------------------ config
\* The required settings, in the order validate_config checks them.
Required == <<"CALENDLY_API_TOKEN", "SUPABASE_URL", "SUPABASE_SERVICE_KEY">>

\* An environment: setting -> whether it is set to a non-empty value.
Configs == [{Required[i] : i \in 1..Len(Required)} -> BOOLEAN]

Complete == [name \in {Required[i] : i \in 1..Len(Required)} |-> TRUE]

\* validate_config: the list "missing"
Missing(cfg) == SelectSeq(Required, LAMBDA name : ~cfg[name])

\* validate_config: "if missing: ... return False", else True
ValidateConfig(cfg) == Missing(cfg) = <<>>

\* ----------------------------------------------------------------- strings
LowerChar(c) ==
    CASE c = "A" -> "a"
      [] c = "C" -> "c"
      [] OTHER -> c

Lower(s) == [i \in 1..Len(s) |-> LowerChar(s[i])]

IsSpace(c) == c = " "

RECURSIVE LStrip(_)
LStrip(s) == IF s # <<>> /\ IsSpace(Head(s)) THEN LStrip(Tail(s)) ELSE s

RECURSIVE RStrip(_)
RStrip(s) ==
    IF s # <<>> /\ IsSpace(s[Len(s)]) THEN RStrip(SubSeq(s, 1, Len(s) - 1)) ELSE s

Strip(s) == RStrip(LStrip(s))

\* email.lower().strip()
Normalize(s) == Strip(Lower(s))

HasSlash(s) == \E i \in 1..Len(s) : s[i] = "/"

\* s.split("/")[-1]
RECURSIVE SplitLast(_)
SplitLast(s) == IF HasSlash(s) THEN SplitLast(Tail(s)) ELSE s

Range(s) == {s[i] : i \in 1..Len(s)}

RECURSIVE Flatten(_)
Flatten(ss) == IF ss = <<>> THEN <<>> ELSE Head(ss) \o Flatten(Tail(ss))

RECURSIVE SumSeq(_)
SumSeq(s) == IF s = <<>> THEN 0 ELSE Head(s) + SumSeq(Tail(s))

\* ---------------------------------------------------------------- provider
NoToken == 0

\* The provider's pages of a collection: page i carries the token of page
\* i + 1, the last page carries none.
Page(items, next) == [collection |-> items, next_page_token |-> next]

WellFormed(pages) ==
    /\ Len(pages) >= 1
    /\ \A i \in 1..Len(pages) :
          pages[i].next_page_token = (IF i < Len(pages) THEN i + 1 ELSE NoToken)

PageCount(items) ==
    IF Len(items) = 0 THEN 1 ELSE (Len(items) + PageSize - 1) \div PageSize

Paginate(items) ==
    [i \in 1..PageCount(items) |->
        Page(SubSeq(items, (i - 1) * PageSize + 1,
                    IF i * PageSize < Len(items) THEN i * PageSize ELSE Len(items)),
             IF i < PageCount(items) THEN i + 1 ELSE NoToken)]

\* The page a request gets: the first one without a token, else the token's.
Served(pages, token) == pages[IF token = NoToken THEN 1 ELSE token]

\* A loop that never asks for another page.
MorePagesNever(page) == FALSE

\* "if not page_token: break": the while loop goes on with the token.
MorePages(page) == page.next_page_token # NoToken

\* The events the provider may hold, in the order it lists them.
EventTemplates ==
    << [uri |-> <<"h", "/", "u">>, name |-> "U", start_time |-> "t1"],
       [uri |-> <<"h", "/", "v">>, name |-> "V", start_time |-> "t2"] >>

MaxEvents == Len(EventTemplates)

\* Raw invitee emails: one that normalizes to a lead's email, one that
\* matches no lead, one that is empty after normalization.
InviteeEmails == { <<"A", " ">>, <<"c">>, <<" ">> }

Invitee(raw) == [email |-> raw]

InviteeLists ==
    UNION { [1..n -> {Invitee(e) : e \in InviteeEmails}] : n \in 0..MaxInvitees }

\* get_event_invitees asks for the invitees of /scheduled_events/{uuid}.
RequestUuid(event_uri) == SplitLast(event_uri)

\* ------------------------------------------------------------------- leads
NoGenerated ==
    [present |-> FALSE, persona |-> NULL, persona_email |-> NULL,
     variant_id |-> NULL, main_tech |-> NULL]

Generated(p, pe, v, t) ==
    [present |-> TRUE, persona |-> p, persona_email |-> pe,
     variant_id |-> v, main_tech |-> t]

LeadRow(id, domain, emails, emailed, booked, gen) ==
    [id |-> id, domain |-> domain, emails |-> emails, emailed |-> emailed,
     booked |-> booked, booked_at |-> NULL, calendly_event_uri |-> NONE,
     calendly_invitee_email |-> NONE, calendly_event_name |-> NULL,
     generated_email |-> gen]

NoLead == LeadRow(NULL, NULL, <<>>, FALSE, FALSE, NoGenerated)

IsLead(lead) == lead.id # NULL

\* match_booking_to_lead, primary path: the rows whose emails array contains
\* the target exactly; data[0] of whatever order the store returns.
PrimaryQuery(table, email) ==
    {id \in LeadIds : email \in Range(table[id].emails)}

PrimaryResults(table, email) ==
    IF PrimaryQuery(table, email) = {} THEN {NoLead}
    ELSE {table[id] : id \in PrimaryQuery(table, email)}

\* match_booking_to_lead, fallback path: the rows with emailed = true, the
\* first with an email whose lower().strip() equals the target.
FallbackQuery(table) == {id \in LeadIds : table[id].emailed}

FallbackHits(table, email) ==
    {id \in FallbackQuery(table) :
        \E e \in Range(table[id].emails) : Normalize(e) = email}

FallbackResults(table, email) ==
    IF FallbackHits(table, email) = {} THEN {NoLead}
    ELSE {table[id] : id \in FallbackHits(table, email)}

\* An update without the filter on the id.
UpdateLeadEveryRow(table, lead_id, booking) ==
    [id \in LeadIds |->
        [table[id] EXCEPT
            !.booked = TRUE,
            !.booked_at = booking.event_start_time,
            !.calendly_event_uri = booking.event_uri,
            !.calendly_invitee_email = booking.invitee_email,
            !.calendly_event_name = booking.event_name]]

\* An update that writes the booking's fields but not the booked flag.
UpdateLeadKeepsFlag(table, lead_id, booking) ==
    [id \in LeadIds |->
        IF table[id].id = lead_id
        THEN [table[id] EXCEPT
                !.booked_at = booking.event_start_time,
                !.calendly_event_uri = booking.event_uri,
                !.calendly_invitee_email = booking.invitee_email,
                !.calendly_event_name = booking.event_name]
        ELSE table[id]]

\* update_lead_with_booking: update(update_data).eq("id", lead_id)
UpdateLeadWithBooking(table, lead_id, booking) ==
    [id \in LeadIds |->
        IF table[id].id = lead_id
        THEN [table[id] EXCEPT
                !.booked = TRUE,
                !.booked_at = booking.event_start_time,
                !.calendly_event_uri = booking.event_uri,
                !.calendly_invitee_email = booking.invitee_email,
                !.calendly_event_name = booking.event_name]
        ELSE table[id]]

\* A sync that updates a matched lead whenever its row has been emailed.
NeedsUpdateIfEmailed(lead) == lead.emailed

\* A sync that updates every matched lead.
NeedsUpdateAlways(lead) == TRUE

\* The condition under which sync_calendly_bookings updates a matched lead.
NeedsUpdate(lead) == ~lead.booked

\* ---------------------------------------------------------------- bookings
\* An event_uuid that is the id get_event_invitees asks for.
EventUuidOfRequest(event_uri) == SplitLast(event_uri)

\* extract_booking_info: event_uuid
EventUuid(event_uri) ==
    IF event_uri # <<>> /\ HasSlash(event_uri) THEN SplitLast(event_uri) ELSE <<>>

Booking(event, email) ==
    [invitee_email |-> email, event_uri |-> event.uri,
     event_uuid |-> EventUuid(event.uri), event_name |-> event.name,
     event_start_time |-> event.start_time]

\* An extraction that emits one booking per distinct email.
RECURSIVE ExtractDeduplicates(_, _)
ExtractDeduplicates(event, invitees) ==
    IF invitees = <<>> THEN <<>>
    ELSE LET email == Normalize(invitees[Len(invitees)].email)
             before == ExtractDeduplicates(event,
                                           SubSeq(invitees, 1, Len(invitees) - 1))
         IN  IF email = <<>>
                \/ \E i \in 1..Len(before) : before[i].invitee_email = email
             THEN before
             ELSE Append(before, Booking(event, email))

\* An extraction that keeps the invitees without an email.
RECURSIVE ExtractKeepsEmpty(_, _)
ExtractKeepsEmpty(event, invitees) ==
    IF invitees = <<>> THEN <<>>
    ELSE <<Booking(event, Normalize(Head(invitees).email))>>
            \o ExtractKeepsEmpty(event, Tail(invitees))

RECURSIVE ExtractBookingInfo(_, _)
ExtractBookingInfo(event, invitees) ==
    IF invitees = <<>> THEN <<>>
    ELSE LET email == Normalize(Head(invitees).email)
             rest == ExtractBookingInfo(event, Tail(invitees))
         IN  IF email = <<>> THEN rest ELSE <<Booking(event, email)>> \o rest

\* A record that carries the lead's id and domain but not its campaign.
BookingRecordLeadOnly(booking, lead) ==
    [invitee_email |-> booking.invitee_email,
     event_uri |-> booking.event_uri,
     event_uuid |-> booking.event_uuid,
     event_name |-> booking.event_name,
     event_start_time |-> booking.event_start_time,
     matched_lead_id |-> IF IsLead(lead) THEN lead.id ELSE NULL,
     matched_domain |-> IF IsLead(lead) THEN lead.domain ELSE NULL,
     persona |-> NULL, persona_email |-> NULL, variant_id |-> NULL,
     main_tech |-> NULL]

\* save_booking_record: the row written
BookingRecord(booking, lead) ==
    LET gen == IF IsLead(lead) THEN lead.generated_email ELSE NoGenerated
    IN  [invitee_email |-> booking.invitee_email,
         event_uri |-> booking.event_uri,
         event_uuid |-> booking.event_uuid,
         event_name |-> booking.event_name,
         event_start_time |-> booking.event_start_time,
         matched_lead_id |-> IF IsLead(lead) THEN lead.id ELSE NULL,
         matched_domain |-> IF IsLead(lead) THEN lead.domain ELSE NULL,
         persona |-> IF gen.present THEN gen.persona ELSE NULL,
         persona_email |-> IF gen.present THEN gen.persona_email ELSE NULL,
         variant_id |-> IF gen.present THEN gen.variant_id ELSE NULL,
         main_tech |-> IF gen.present THEN gen.main_tech ELSE NULL]

Key(row) == <<row.event_uuid, row.invitee_email>>

Keys(table) == {Key(table[i]) : i \in 1..Len(table)}

\* An upsert whose conflict key includes the matched lead.
UpsertKeyedByLead(table, record) ==
    IF \E i \in 1..Len(table) :
          Key(table[i]) = Key(record)
          /\ table[i].matched_lead_id = record.matched_lead_id
    THEN [i \in 1..Len(table) |->
            IF Key(table[i]) = Key(record)
               /\ table[i].matched_lead_id = record.matched_lead_id
            THEN record ELSE table[i]]
    ELSE Append(table, record)

\* An insert that ignores the conflict key.
UpsertInserts(table, record) == Append(table, record)

\* upsert(record, on_conflict="event_uuid,invitee_email"): replace the row
\* with the record's key in place, insert the record when there is none.
Upsert(table, record) ==
    IF Key(record) \in Keys(table)
    THEN [i \in 1..Len(table) |->
            IF Key(table[i]) = Key(record) THEN record ELSE table[i]]
    ELSE Append(table, record)

\* --------------------------------------------------------------- analytics
\* booking.get(field) or "Unknown": None and the empty string are falsy.
Bucket(value) == IF value = NULL \/ value = "" THEN "Unknown" ELSE value

\* d[key] = d.get(key, 0) + 1
Increment(d, key) ==
    IF key \in DOMAIN d THEN [d EXCEPT ![key] = @ + 1] ELSE d @@ (key :> 1)

\* A tally that leaves out the rows without a value.
RECURSIVE TallySkipsNull(_, _)
TallySkipsNull(rows, field) ==
    IF rows = <<>> THEN <<>>
    ELSE LET d == TallySkipsNull(SubSeq(rows, 1, Len(rows) - 1), field)
             value == rows[Len(rows)][field]
         IN  IF value = NULL \/ value = "" THEN d ELSE Increment(d, value)

\* "for booking in bookings": the dict of one dimension after the loop.
RECURSIVE Tally(_, _)
Tally(rows, field) ==
    IF rows = <<>> THEN <<>>
    ELSE Increment(Tally(SubSeq(rows, 1, Len(rows) - 1), field),
                   Bucket(rows[Len(rows)][field]))

\* if booking.get("matched_lead_id"): matched_bookings += 1
MatchedBookings(rows) ==
    Cardinality({i \in 1..Len(rows) :
                   rows[i].matched_lead_id # NULL /\ rows[i].matched_lead_id # ""})

\* get_booking_analytics: stats before the conversion rate
Aggregate(rows) ==
    [total_bookings |-> Len(rows),
     matched_bookings |-> MatchedBookings(rows),
     by_persona |-> Tally(rows, "persona"),
     by_variant |-> Tally(rows, "variant_id"),
     by_tech |-> Tally(rows, "main_tech")]

\* The conversion rate matched_bookings / total_sends, as a fraction; the
\* field is set only when total_sends > 0.
WithRate(stats, send_counts) ==
    IF SumSeq(send_counts) > 0
    THEN stats @@ ("overall_conversion_rate" :>
                     [matched |-> stats.matched_bookings,
                      sends |-> SumSeq(send_counts)])
    ELSE stats

\* --------------------------------------------------------------- run state
ZeroStats ==
    [events_processed |-> 0, bookings_found |-> 0, leads_matched |-> 0,
     leads_updated |-> 0, new_bookings |-> 0]

\* What happened to one event of a run (history, not program state).
OpenEvent == [status |-> "open", found |-> 0, bk |-> <<>>, slept |-> FALSE]

\* What happened to one booking: the lead matched, the writes issued.
OpenBooking(lead) ==
    [lead |-> lead.id, booked |-> lead.booked, updates |-> 0, upserts |-> 0]

IdleRun ==
    [pc |-> "idle", user_uri |-> FALSE, token |-> NoToken, events |-> <<>>,
     ei |-> 0, invitees |-> <<>>, bookings |-> <<>>, bi |-> 0, lead |-> NoLead,
     stats |-> ZeroStats, result |-> "none", exc |-> "none",
     userReqs |-> 0, listReqs |-> 0, pageReqs |-> 0, invReqs |-> 0,
     ev |-> <<>>, clean |-> FALSE, prevClean |-> FALSE, before |-> <<>>,
     leadsBefore |-> <<>>, reported |-> <<>>, status |-> 0]

Finished == {"done", "failed"}

CanFail == failures < MaxFailures

Fail == failures' = failures + 1

Set(r, run) == rs' = [rs EXCEPT ![r] = run]

\* The head of "for event in events": the next event, or the return.
NextEvent(run) ==
    IF run.ei < Len(run.events)
    THEN [run EXCEPT !.pc = "invitees", !.ei = run.ei + 1, !.token = NoToken,
                     !.invitees = <<>>, !.bookings = <<>>, !.bi = 0,
                     !.lead = NoLead, !.invReqs = 0,
                     !.ev = Append(run.ev, OpenEvent)]
    ELSE [run EXCEPT !.pc = "returned",
                     !.clean = \A k \in 1..Len(run.ev) : run.ev[k].status = "ok"]

\* The end of the try block of one event: events_processed += 1.
EventDone(run) ==
    [run EXCEPT !.pc = "sleep",
                !.stats.events_processed = run.stats.events_processed + 1,
                !.ev[Len(run.ev)].status = IF @ = "open" THEN "ok" ELSE @]

\* The statement after a booking's save: the next booking or the event's end.
NextBooking(run) ==
    IF run.bi < Len(run.bookings)
    THEN [run EXCEPT !.pc = "match", !.bi = run.bi + 1, !.lead = NoLead]
    ELSE EventDone(run)

\* An except clause that counts the event as processed.
EventFailedCountsEvent(run, why) ==
    NextEvent([run EXCEPT !.ev[Len(run.ev)].status = why,
                          !.stats.events_processed = @ + 1])

\* An except clause that leaves the for loop (break).
EventFailedAborts(run, why) ==
    [run EXCEPT !.pc = "returned", !.clean = FALSE,
                !.ev[Len(run.ev)].status = why]

\* An except clause around one booking: the next booking is processed.
EventFailedSkipsBooking(run, why) ==
    IF run.pc \in {"update", "save"}
    THEN NextBooking([run EXCEPT !.ev[Len(run.ev)].status = why])
    ELSE NextEvent([run EXCEPT !.ev[Len(run.ev)].status = why])

\* "except Exception: ... continue": the event is given up, no sleep.
EventFailed(run, why) ==
    NextEvent([run EXCEPT !.ev[Len(run.ev)].status = why])

\* ----------------------------------------------------------------- actions
\* The worker process starts: run_sync validates the configuration and
\* returns {"error": ...} when a setting is missing, after which the process
\* ends as after any return of run_sync; else it starts
\* sync_calendly_bookings with a new client.  The locals of the process's
\* previous run are gone.
StartRun(r) ==
    /\ rs[r].pc \in {"idle"} \cup Finished
    /\ LET run == [IdleRun EXCEPT !.before = bookings, !.leadsBefore = leads,
                                  !.prevClean = rs[r].clean]
       IN  Set(r, IF ValidateConfig(config) THEN [run EXCEPT !.pc = "user"]
                  ELSE [run EXCEPT !.pc = "done", !.result = "error",
                                   !.reported = Missing(config), !.status = 0])
    /\ UNCHANGED <<config, sends, analytics, probe, provider, leads, bookings, leadWrites, failures>>

\* user = calendly.get_current_user()
GetCurrentUser(r) ==
    /\ rs[r].pc = "user"
    /\ Set(r, [rs[r] EXCEPT !.pc = "user_uri", !.userReqs = 1])
    /\ UNCHANGED <<config, sends, analytics, probe, provider, leads, bookings, leadWrites, failures>>

GetCurrentUserFails(r) ==
    /\ rs[r].pc = "user"
    /\ CanFail /\ Fail
    /\ Set(r, [rs[r] EXCEPT !.pc = "raised", !.exc = "user", !.userReqs = 1])
    /\ UNCHANGED <<config, sends, analytics, probe, provider, leads, bookings, leadWrites>>

\* list_scheduled_events: params["user"] = self.user_uri, which asks
\* /users/me, the URI of a new client not being cached yet.
ResolveUserUri(r) ==
    /\ rs[r].pc = "user_uri"
    /\ ~rs[r].user_uri
    /\ Set(r, [rs[r] EXCEPT
                 !.pc = "list", !.user_uri = TRUE, !.token = NoToken,
                 !.events = <<>>, !.listReqs = 1])
    /\ UNCHANGED <<config, sends, analytics, probe, provider, leads, bookings, leadWrites, failures>>

ResolveUserUriFails(r) ==
    /\ rs[r].pc = "user_uri"
    /\ ~rs[r].user_uri
    /\ CanFail /\ Fail
    /\ Set(r, [rs[r] EXCEPT !.pc = "raised", !.exc = "user", !.listReqs = 1])
    /\ UNCHANGED <<config, sends, analytics, probe, provider, leads, bookings, leadWrites>>

\* One pass of the while loop of list_scheduled_events.
ListEventsPage(r) ==
    /\ rs[r].pc = "list"
    /\ LET page == Served(provider.eventPages, rs[r].token)
           run == [rs[r] EXCEPT
                     !.events = rs[r].events \o page.collection,
                     !.token = page.next_page_token,
                     !.listReqs = rs[r].listReqs + 1,
                     !.pageReqs = rs[r].pageReqs + 1]
       IN  Set(r, IF MorePages(page) THEN run
                  ELSE NextEvent([run EXCEPT !.ei = 0]))
    /\ UNCHANGED <<config, sends, analytics, probe, provider, leads, bookings, leadWrites, failures>>

\* A listing that takes a failing page for the last one.
ListEventsPageFailsKeepsGoing(r) ==
    /\ rs[r].pc = "list"
    /\ CanFail /\ Fail
    /\ Set(r, NextEvent([rs[r] EXCEPT !.exc = "list", !.ei = 0,
                                      !.listReqs = rs[r].listReqs + 1,
                                      !.pageReqs = rs[r].pageReqs + 1]))
    /\ UNCHANGED <<config, sends, analytics, probe, provider, leads, bookings, leadWrites>>

ListEventsPageFails(r) ==
    /\ rs[r].pc = "list"
    /\ CanFail /\ Fail
    /\ Set(r, [rs[r] EXCEPT !.pc = "raised", !.exc = "list",
                            !.listReqs = rs[r].listReqs + 1,
                            !.pageReqs = rs[r].pageReqs + 1])
    /\ UNCHANGED <<config, sends, analytics, probe, provider, leads, bookings, leadWrites>>

\* One pass of the while loop of get_event_invitees; after the last page,
\* extract_booking_info and stats["bookings_found"] += len(bookings).
FetchInviteesPage(r) ==
    /\ rs[r].pc = "invitees"
    /\ LET event == rs[r].events[rs[r].ei]
           page == Served(provider.inviteePages[RequestUuid(event.uri)],
                          rs[r].token)
           run == [rs[r] EXCEPT
                     !.invitees = rs[r].invitees \o page.collection,
                     !.token = page.next_page_token,
                     !.invReqs = rs[r].invReqs + 1]
           found == ExtractBookingInfo(event, run.invitees)
           got == [run EXCEPT
                     !.bookings = found,
                     !.stats.bookings_found = run.stats.bookings_found + Len(found),
                     !.ev[Len(run.ev)].found = Len(found)]
       IN  Set(r, IF MorePages(page) THEN run
                  ELSE IF found = <<>> THEN EventDone(got)
                  ELSE [got EXCEPT !.pc = "match", !.bi = 1])
    /\ UNCHANGED <<config, sends, analytics, probe, provider, leads, bookings, leadWrites, failures>>

FetchInviteesPageFails(r) ==
    /\ rs[r].pc = "invitees"
    /\ CanFail /\ Fail
    /\ Set(r, EventFailed([rs[r] EXCEPT !.invReqs = rs[r].invReqs + 1],
                          "fetch_failed"))
    /\ UNCHANGED <<config, sends, analytics, probe, provider, leads, bookings, leadWrites>>

\* A sync that has nothing to do for a lead that is booked already.
MatchedSkipsBooked(run, lead) ==
    LET seen == [run EXCEPT !.lead = lead,
                            !.ev[Len(run.ev)].bk = Append(@, OpenBooking(lead))]
    IN  IF IsLead(lead)
        THEN IF NeedsUpdate(lead)
             THEN [seen EXCEPT
                     !.stats.leads_matched = run.stats.leads_matched + 1,
                     !.pc = "update"]
             ELSE NextBooking([seen EXCEPT
                     !.stats.leads_matched = run.stats.leads_matched + 1])
        ELSE [seen EXCEPT !.pc = "save"]

\* A sync that saves the booking record only of a matched booking.
MatchedSkipsUnmatched(run, lead) ==
    LET seen == [run EXCEPT !.lead = lead,
                            !.ev[Len(run.ev)].bk = Append(@, OpenBooking(lead))]
    IN  IF IsLead(lead)
        THEN [seen EXCEPT
                !.stats.leads_matched = run.stats.leads_matched + 1,
                !.pc = IF NeedsUpdate(lead) THEN "update" ELSE "save"]
        ELSE NextBooking(seen)

\* if lead: leads_matched += 1, then the update when it is not booked yet.
Matched(run, lead) ==
    LET seen == [run EXCEPT !.lead = lead,
                            !.ev[Len(run.ev)].bk = Append(@, OpenBooking(lead))]
    IN  IF IsLead(lead)
        THEN [seen EXCEPT
                !.stats.leads_matched = run.stats.leads_matched + 1,
                !.pc = IF NeedsUpdate(lead) THEN "update" ELSE "save"]
        ELSE [seen EXCEPT !.pc = "save"]

\* match_booking_to_lead: the containment query answers.
MatchPrimary(r) ==
    /\ rs[r].pc = "match"
    /\ \E lead \in PrimaryResults(leads, rs[r].bookings[rs[r].bi].invitee_email) :
          Set(r, Matched(rs[r], lead))
    /\ UNCHANGED <<config, sends, analytics, probe, provider, leads, bookings, leadWrites, failures>>

\* match_booking_to_lead: the containment query raises, the scan answers.
MatchFallback(r) ==
    /\ rs[r].pc = "match"
    /\ \E lead \in FallbackResults(leads, rs[r].bookings[rs[r].bi].invitee_email) :
          Set(r, Matched(rs[r], lead))
    /\ UNCHANGED <<config, sends, analytics, probe, provider, leads, bookings, leadWrites, failures>>

\* match_booking_to_lead: the containment query raises and so does the scan.
MatchFails(r) ==
    /\ rs[r].pc = "match"
    /\ CanFail /\ Fail
    /\ Set(r, EventFailed(rs[r], "match_failed"))
    /\ UNCHANGED <<config, sends, analytics, probe, provider, leads, bookings, leadWrites>>

\* update_lead_with_booking and leads_updated += 1
UpdateLead(r) ==
    /\ rs[r].pc = "update"
    /\ leads' = UpdateLeadWithBooking(leads, rs[r].lead.id, rs[r].bookings[rs[r].bi])
    /\ leadWrites' =
          [leadWrites EXCEPT
             ![rs[r].lead.id] =
                [count |-> @.count + 1,
                 onBooked |-> @.onBooked +
                    (IF leads[rs[r].lead.id].booked THEN 1 ELSE 0)]]
    /\ Set(r, [rs[r] EXCEPT
                 !.pc = "save",
                 !.stats.leads_updated = rs[r].stats.leads_updated + 1,
                 !.ev[Len(rs[r].ev)].bk[rs[r].bi].updates = @ + 1])
    /\ UNCHANGED <<config, sends, analytics, probe, provider, bookings, failures>>

\* A sync that goes on to save the booking record when the update raised.
UpdateLeadFailsThenSaves(r) ==
    /\ rs[r].pc = "update"
    /\ CanFail /\ Fail
    /\ Set(r, [rs[r] EXCEPT !.pc = "save"])
    /\ UNCHANGED <<config, sends, analytics, probe, provider, leads, bookings, leadWrites>>

UpdateLeadFails(r) ==
    /\ rs[r].pc = "update"
    /\ CanFail /\ Fail
    /\ Set(r, EventFailed(rs[r], "write_failed"))
    /\ UNCHANGED <<config, sends, analytics, probe, provider, leads, bookings, leadWrites>>

\* save_booking_record and new_bookings += 1
SaveBooking(r) ==
    /\ rs[r].pc = "save"
    /\ bookings' = Upsert(bookings, BookingRecord(rs[r].bookings[rs[r].bi], rs[r].lead))
    /\ Set(r, NextBooking([rs[r] EXCEPT
                 !.stats.new_bookings = rs[r].stats.new_bookings + 1,
                 !.ev[Len(rs[r].ev)].bk[rs[r].bi].upserts = @ + 1]))
    /\ UNCHANGED <<config, sends, analytics, probe, provider, leads, leadWrites, failures>>

SaveBookingFails(r) ==
    /\ rs[r].pc = "save"
    /\ CanFail /\ Fail
    /\ Set(r, EventFailed(rs[r], "write_failed"))
    /\ UNCHANGED <<config, sends, analytics, probe, provider, leads, bookings, leadWrites>>

\* time.sleep(0.5) after an event whose processing raised nothing.
Sleep(r) ==
    /\ rs[r].pc = "sleep"
    /\ Set(r, NextEvent([rs[r] EXCEPT !.ev[Len(rs[r].ev)].slept = TRUE]))
    /\ UNCHANGED <<config, sends, analytics, probe, provider, leads, bookings, leadWrites, failures>>

\* run_sync after sync_calendly_bookings returned: the analytics, the
\* summary, return stats.
RunSyncReturns(r) ==
    /\ rs[r].pc = "returned"
    /\ Set(r, [rs[r] EXCEPT !.pc = "done", !.result = "stats", !.status = 0])
    /\ UNCHANGED <<config, sends, analytics, probe, provider, leads, bookings, leadWrites, failures>>

\* run_sync: get_booking_analytics cannot read the bookings table.
RunSyncAnalyticsFails(r) ==
    /\ rs[r].pc = "returned"
    /\ CanFail /\ Fail
    /\ Set(r, [rs[r] EXCEPT !.pc = "raised", !.exc = "analytics"])
    /\ UNCHANGED <<config, sends, analytics, probe, provider, leads, bookings, leadWrites>>

\* run_sync: except Exception: log, raise; the exception ends the process.
RunSyncReraises(r) ==
    /\ rs[r].pc = "raised"
    /\ Set(r, [rs[r] EXCEPT !.pc = "failed", !.result = "raised", !.status = 1])
    /\ UNCHANGED <<config, sends, analytics, probe, provider, leads, bookings, leadWrites, failures>>

\* -------------------------------------------------------------------- init
\* The events the provider holds: the first n templates, each with a list
\* of invitees.
Feeds ==
    { f \in UNION { [1..n -> InviteeLists] : n \in 0..MaxEvents } :
        SumSeq([k \in 1..Len(f) |-> Len(f[k])]) <= MaxInvitees }

FeedEvents(feed) == [k \in 1..Len(feed) |-> EventTemplates[k]]

ProviderOf(feed) ==
    [eventPages |-> Paginate(FeedEvents(feed)),
     inviteePages |->
        [u \in {RequestUuid(EventTemplates[k].uri) : k \in 1..Len(feed)} |->
            Paginate(feed[CHOOSE k \in 1..Len(feed) :
                              RequestUuid(EventTemplates[k].uri) = u])]]

\* The leads table: two leads hold the same email; L1 may be booked already
\* and may not have been emailed.
LeadTables ==
    { [id \in LeadIds |->
         IF id = "L1"
         THEN LeadRow("L1", "one.com", << <<"a">> >>, e1, b1,
                      Generated("P1", "p1@x", "V1", "T1"))
         ELSE LeadRow("L2", "two.com", << <<"a">> >>, TRUE, FALSE, NoGenerated)]
      : e1 \in BOOLEAN, b1 \in BOOLEAN }

NoProbe ==
    [stage |-> "none", raw |-> <<>>, invitees |-> <<>>, found |-> <<>>,
     email |-> <<>>, path |-> "none", primary |-> "none", scanned |-> FALSE,
     result |-> NoLead]

NoAnalytics == [stage |-> "none", source |-> "none", out |-> <<>>]

\* Nothing outside the sync runs happens.
Quiet == probe = NoProbe /\ sends = <<>> /\ analytics = NoAnalytics

Init ==
    /\ Quiet
    /\ config = Complete
    /\ \E feed \in Feeds : provider = ProviderOf(feed)
    /\ leads \in LeadTables
    /\ bookings = <<>>
    /\ rs = [r \in Procs |-> IdleRun]
    /\ leadWrites = [id \in LeadIds |-> [count |-> 0, onBooked |-> 0]]
    /\ failures = 0

Step(r) ==
        \/ StartRun(r)
        \/ GetCurrentUser(r)
        \/ GetCurrentUserFails(r)
        \/ ResolveUserUri(r)
        \/ ResolveUserUriFails(r)
        \/ ListEventsPage(r)
        \/ ListEventsPageFails(r)
        \/ FetchInviteesPage(r)
        \/ FetchInviteesPageFails(r)
        \/ MatchPrimary(r)
        \/ MatchFallback(r)
        \/ MatchFails(r)
        \/ UpdateLead(r)
        \/ UpdateLeadFails(r)
        \/ SaveBooking(r)
        \/ SaveBookingFails(r)
        \/ Sleep(r)
        \/ RunSyncReturns(r)
        \/ RunSyncAnalyticsFails(r)
        \/ RunSyncReraises(r)

Next == \E r \in Sequential : Step(r)

Spec == Init /\ [][Next]_vars

\* The worker in any environment, over a provider holding at most one event.
InitWorker ==
    /\ Quiet
    /\ config \in Configs
    /\ \E feed \in {f \in Feeds : Len(f) <= 1} : provider = ProviderOf(feed)
    /\ leads \in LeadTables
    /\ bookings = <<>>
    /\ rs = [r \in Procs |-> IdleRun]
    /\ leadWrites = [id \in LeadIds |-> [count |-> 0, onBooked |-> 0]]
    /\ failures = 0

SpecWorker == InitWorker /\ [][Next]_vars

\* Two worker processes whose runs overlap, e.g. a retry launched before the
\* prior run finished, over a provider holding one event whose invitees all
\* gave an email, and leads that have been emailed.
OverlapFeeds ==
    {f \in Feeds :
        /\ Len(f) = 1
        /\ \A i \in 1..Len(f[1]) : Normalize(f[1][i].email) # <<>>}

InitOverlap ==
    /\ Quiet
    /\ config = Complete
    /\ \E feed \in OverlapFeeds : provider = ProviderOf(feed)
    /\ leads \in {table \in LeadTables : table["L1"].emailed}
    /\ bookings = <<>>
    /\ rs = [r \in Procs |-> IdleRun]
    /\ leadWrites = [id \in LeadIds |-> [count |-> 0, onBooked |-> 0]]
    /\ failures = 0

\* Each process makes one run.
NextOverlap == \E r \in Procs : rs[r].pc \notin Finished /\ Step(r)

SpecOverlap == InitOverlap /\ [][NextOverlap]_vars

\* --------------------------------------------------------- degraded events
\* Two events whose URI has no "/"; the URI of the first may be absent,
\* which event.get("uri", "") turns into the empty string.  The provider
\* answers the request for the invitees of such an event.
DegradedUris == { <<"u">>, <<>> }

DegradedEvents(uri) ==
    << [uri |-> uri, name |-> "U", start_time |-> "t1"],
       [uri |-> <<"v">>, name |-> "V", start_time |-> "t2"] >>

DegradedProvider(events, feed) ==
    [eventPages |-> Paginate(events),
     inviteePages |->
        [u \in {RequestUuid(events[k].uri) : k \in 1..Len(events)} |->
            Paginate(feed[CHOOSE k \in 1..Len(events) :
                              RequestUuid(events[k].uri) = u])]]

InitDegraded ==
    /\ Quiet
    /\ config = Complete
    /\ \E uri \in DegradedUris :
       \E feed \in {f \in Feeds :
                      /\ Len(f) = 2
                      /\ \A k \in 1..2 : \A i \in 1..Len(f[k]) :
                            Normalize(f[k][i].email) # <<>>} :
          provider = DegradedProvider(DegradedEvents(uri), feed)
    /\ leads \in {table \in LeadTables : table["L1"].emailed}
    /\ bookings = <<>>
    /\ rs = [r \in Procs |-> IdleRun]
    /\ leadWrites = [id \in LeadIds |-> [count |-> 0, onBooked |-> 0]]
    /\ failures = 0

SpecDegraded == InitDegraded /\ [][Next]_vars

\* --------------------------------------------------------- analytics alone
\* The values a row's persona, variant_id, main_tech and matched_lead_id may
\* hold: null, empty, a name, and for the persona the name "Unknown" itself.
AnalyticsRow(n, persona, variant, tech, lead_id) ==
    [BookingRecord(Booking(EventTemplates[1], [j \in 1..n |-> "k"]), NoLead)
        EXCEPT !.persona = persona, !.variant_id = variant, !.main_tech = tech,
               !.matched_lead_id = lead_id]

AnalyticsTables ==
    UNION { { table \in [1..n ->
                          { AnalyticsRow(i, p, v, t, m) :
                              i \in 1..n, p \in {NULL, "", "P1", "Unknown"},
                              v \in {NULL, "V1"}, t \in {NULL, "T1"},
                              m \in {NULL, "L1"} }] :
                \A i \in 1..n : Len(table[i].invitee_email) = i }
            : n \in 0..MaxRows }

\* The send_count column of email_stats.
SendLogs == { <<>>, <<0>>, <<2>>, <<1, 2>> }

NoOutput == <<>>

InitAnalytics ==
    /\ probe = NoProbe /\ analytics = NoAnalytics
    /\ config = Complete
    /\ bookings \in AnalyticsTables
    /\ sends \in SendLogs
    /\ provider = ProviderOf(<<>>)
    /\ leads \in {table \in LeadTables : table["L1"].emailed /\ ~table["L1"].booked}
    /\ rs = [r \in Procs |-> IdleRun]
    /\ leadWrites = [id \in LeadIds |-> [count |-> 0, onBooked |-> 0]]
    /\ failures = 0

\* get_booking_analytics with a send log that sets the rate to zero when
\* it cannot be read.
GetBookingAnalyticsNoSourceZeroRate ==
    /\ analytics.stage = "none"
    /\ analytics' =
          [stage |-> "returned", source |-> "raised",
           out |-> Aggregate(bookings) @@
                      ("overall_conversion_rate" :> [matched |-> 0, sends |-> 1])]
    /\ UNCHANGED <<config, sends, probe, provider, leads, bookings, rs, leadWrites,
                   failures>>

\* get_booking_analytics, both queries answering
GetBookingAnalytics ==
    /\ analytics.stage = "none"
    /\ analytics' = [stage |-> "returned", source |-> "answered",
                     out |-> WithRate(Aggregate(bookings), sends)]
    /\ UNCHANGED <<config, sends, probe, provider, leads, bookings, rs, leadWrites,
                   failures>>

\* get_booking_analytics, the email_stats query raising: except, pass
GetBookingAnalyticsNoSource ==
    /\ analytics.stage = "none"
    /\ analytics' = [stage |-> "returned", source |-> "raised",
                     out |-> Aggregate(bookings)]
    /\ UNCHANGED <<config, sends, probe, provider, leads, bookings, rs, leadWrites,
                   failures>>

\* get_booking_analytics, the bookings query raising
GetBookingAnalyticsFails ==
    /\ analytics.stage = "none"
    /\ analytics' = [stage |-> "raised", source |-> "none", out |-> NoOutput]
    /\ UNCHANGED <<config, sends, probe, provider, leads, bookings, rs, leadWrites,
                   failures>>

NextAnalytics ==
    \/ GetBookingAnalytics
    \/ GetBookingAnalyticsNoSource
    \/ GetBookingAnalyticsFails

SpecAnalytics == InitAnalytics /\ [][NextAnalytics]_vars

\* ------------------------------------------- extraction and matching alone
\* The emails an invitee may have typed.
ProbeEmails ==
    { <<"a">>, <<"A">>, <<"A", " ">>, <<" ", "a">>, <<"b">>, <<"c">>, <<"C">>,
      <<" ">>, <<>> }

\* The leads table: L1 holds one or two addresses as they were stored and
\* may not have been emailed; L2 holds another address.
ProbeLeadTables ==
    { [id \in LeadIds |->
         IF id = "L1"
         THEN LeadRow("L1", "one.com", emails, e1, FALSE,
                      Generated("P1", "p1@x", "V1", "T1"))
         ELSE LeadRow("L2", "two.com", << <<"c">> >>, TRUE, FALSE, NoGenerated)]
      : emails \in { << <<"a">> >>, << <<"A">> >>, << <<" ", "a">> >>,
                     << <<"b">>, <<"a">> >>, <<>> },
        e1 \in BOOLEAN }

InitMatch ==
    /\ config = Complete /\ sends = <<>> /\ analytics = NoAnalytics
    /\ \E raw \in ProbeEmails :
          probe = [NoProbe EXCEPT !.stage = "input", !.raw = raw,
                                  !.invitees = <<Invitee(raw)>>]
    /\ leads \in ProbeLeadTables
    /\ provider = ProviderOf(<<>>)
    /\ bookings = <<>>
    /\ rs = [r \in Procs |-> IdleRun]
    /\ leadWrites = [id \in LeadIds |-> [count |-> 0, onBooked |-> 0]]
    /\ failures = 0

\* extract_booking_info(event, invitees); the first booking is the one
\* matched.
ProbeExtract ==
    /\ probe.stage = "input"
    /\ LET found == ExtractBookingInfo(EventTemplates[1], probe.invitees)
       IN  probe' = IF found = <<>>
                    THEN [probe EXCEPT !.stage = "skipped", !.found = found]
                    ELSE [probe EXCEPT !.stage = "extracted", !.found = found,
                                       !.email = found[1].invitee_email]
    /\ UNCHANGED <<config, sends, analytics, provider, leads, bookings, rs, leadWrites,
                   failures>>

\* A match that runs the scan when the containment query finds no row.
ProbeMatchPrimaryScansOnEmpty ==
    /\ probe.stage = "extracted"
    /\ IF PrimaryQuery(leads, probe.email) = {}
       THEN \E lead \in FallbackResults(leads, probe.email) :
               probe' = [probe EXCEPT !.stage = "matched", !.path = "fallback",
                                      !.primary = "empty", !.scanned = TRUE,
                                      !.result = lead]
       ELSE \E lead \in PrimaryResults(leads, probe.email) :
               probe' = [probe EXCEPT !.stage = "matched", !.path = "primary",
                                      !.primary = "rows", !.result = lead]
    /\ UNCHANGED <<config, sends, analytics, provider, leads, bookings, rs, leadWrites,
                   failures>>

\* match_booking_to_lead, the containment query answering: data[0] when
\* there are rows, else "return None" past the except clause.
ProbeMatchPrimary ==
    /\ probe.stage = "extracted"
    /\ \E lead \in PrimaryResults(leads, probe.email) :
          probe' = [probe EXCEPT !.stage = "matched", !.path = "primary",
                                 !.primary = IF IsLead(lead) THEN "rows" ELSE "empty",
                                 !.result = lead]
    /\ UNCHANGED <<config, sends, analytics, provider, leads, bookings, rs, leadWrites,
                   failures>>

\* match_booking_to_lead, the containment query raising, the scan answering
ProbeMatchFallback ==
    /\ probe.stage = "extracted"
    /\ \E lead \in FallbackResults(leads, probe.email) :
          probe' = [probe EXCEPT !.stage = "matched", !.path = "fallback",
                                 !.primary = "raised", !.scanned = TRUE,
                                 !.result = lead]
    /\ UNCHANGED <<config, sends, analytics, provider, leads, bookings, rs, leadWrites,
                   failures>>

\* match_booking_to_lead, the containment query and the scan both raising
ProbeMatchFails ==
    /\ probe.stage = "extracted"
    /\ probe' = [probe EXCEPT !.stage = "raised", !.path = "fallback",
                              !.primary = "raised", !.scanned = TRUE]
    /\ UNCHANGED <<config, sends, analytics, provider, leads, bookings, rs, leadWrites,
                   failures>>

\* extract_booking_info on the invitee list of an event.
InitExtract ==
    /\ config = Complete /\ sends = <<>> /\ analytics = NoAnalytics
    /\ \E list \in UNION { [1..n -> {Invitee(e) : e \in ProbeEmails}] :
                             n \in 0..MaxInvitees } :
          probe = [NoProbe EXCEPT !.stage = "input", !.invitees = list]
    /\ leads \in {table \in LeadTables : table["L1"].emailed /\ ~table["L1"].booked}
    /\ provider = ProviderOf(<<>>)
    /\ bookings = <<>>
    /\ rs = [r \in Procs |-> IdleRun]
    /\ leadWrites = [id \in LeadIds |-> [count |-> 0, onBooked |-> 0]]
    /\ failures = 0

SpecExtract == InitExtract /\ [][ProbeExtract]_vars

NextMatch ==
    \/ ProbeExtract
    \/ ProbeMatchPrimary
    \/ ProbeMatchFallback
    \/ ProbeMatchFails

SpecMatch == InitMatch /\ [][NextMatch]_vars

\* ------------------------------------------------------------------ claims
\* The ids of the leads the rows of a bookings table name.
MatchedIds(table) ==
    {table[i].matched_lead_id : i \in 1..Len(table)} \ {NULL}

\* The bookings of the run so far, over all its events.
BookingsOf(run) == Flatten([k \in 1..Len(run.ev) |-> run.ev[k].bk])

\* C1: a run that follows a run which returned without a failed event leaves
\* the bookings table with the keys (event_uuid, invitee_email) and the
\* number of rows it had when the run started, one row per key.
C1_Idempotent ==
    \A r \in Procs :
        rs[r].pc \in {"returned", "done"} /\ rs[r].prevClean =>
            /\ Keys(bookings) = Keys(rs[r].before)
            /\ Len(bookings) = Len(rs[r].before)
            /\ Cardinality(Keys(bookings)) = Len(bookings)

C1_Witness ==
    \E r \in Procs :
        /\ rs[r].pc = "done" /\ rs[r].prevClean /\ rs[r].clean
        /\ rs[r].stats.new_bookings = 2
        /\ Len(bookings) = 2

\* C2, first part: no update-by-id write ever reaches a lead whose booked
\* flag is true, and the update is issued only for a matched lead whose
\* snapshot is not booked.
BookedNeverRewritten ==
    /\ \A id \in LeadIds : leadWrites[id].onBooked = 0
    /\ \A r \in Procs :
          rs[r].pc = "update" => IsLead(rs[r].lead) /\ ~rs[r].lead.booked

\* C2 as stated: moreover a run that follows a run which returned without a
\* failed event performs no lead update at all.
C2_AsStated ==
    /\ BookedNeverRewritten
    /\ \A r \in Procs : rs[r].prevClean => rs[r].stats.leads_updated = 0

\* C2 amended: such a run updates no lead that the run before it matched;
\* it may update another lead holding the same email.
C2_Monotonic ==
    /\ BookedNeverRewritten
    /\ \A r \in Procs :
          rs[r].prevClean =>
             \A i \in 1..Len(BookingsOf(rs[r])) :
                BookingsOf(rs[r])[i].updates > 0 =>
                   BookingsOf(rs[r])[i].lead \notin MatchedIds(rs[r].before)

C2_Witness ==
    \E r \in Procs :
        /\ rs[r].pc = "save" /\ rs[r].prevClean
        /\ IsLead(rs[r].lead) /\ rs[r].lead.booked
        /\ leadWrites[rs[r].lead.id].count = 1
        /\ rs[r].lead.id \in MatchedIds(rs[r].before)

\* Some lead's emails array holds the address as it stands.
Stored(email) == \E id \in LeadIds : email \in Range(leads[id].emails)

\* C3: for a target that some lead's emails array holds, what the fallback
\* scan returned is what the containment query returns.
C3_FallbackEquivalent ==
    probe.stage = "matched" /\ probe.path = "fallback" /\ Stored(probe.email) =>
        PrimaryResults(leads, probe.email) = {probe.result}

\* C4: an invitee email that differs from a stored lead email only in letter
\* case or surrounding whitespace is matched to a lead, the containment query
\* answering.
C4_NormalizedMatch ==
    /\ probe.stage = "matched" /\ probe.path = "primary"
    /\ \E id \in LeadIds : \E e \in Range(leads[id].emails) :
          Normalize(e) = Normalize(probe.raw)
    => IsLead(probe.result)

\* What the provider holds, page after page.
Collected(pages) == Flatten([i \in 1..Len(pages) |-> pages[i].collection])

ProviderEvents == Collected(provider.eventPages)

ProviderInvitees(event) == Collected(provider.inviteePages[RequestUuid(event.uri)])

\* list_scheduled_events has returned in this run.
ListReturned(run) ==
    \/ run.pc \in {"invitees", "match", "update", "save", "sleep", "returned", "done"}
    \/ run.pc \in {"raised", "failed"} /\ run.exc = "analytics"

\* get_event_invitees has returned for the run's current event.
InviteesReturned(run) == run.pc \in {"match", "update", "save", "sleep"}

PagesFollowed(r) ==
    /\ ListReturned(rs[r]) =>
          /\ rs[r].pageReqs = Len(provider.eventPages)
          /\ rs[r].events = ProviderEvents
    /\ InviteesReturned(rs[r]) =>
          LET pages == provider.inviteePages[
                          RequestUuid(rs[r].events[rs[r].ei].uri)]
          IN  /\ rs[r].invReqs = Len(pages)
              /\ rs[r].invitees = Collected(pages)

\* C5 as stated: over N well-formed pages each fetcher issues exactly N
\* requests and returns the pages' collections in page order.
C5_AsStated ==
    \A r \in Procs :
        /\ PagesFollowed(r)
        /\ ListReturned(rs[r]) => rs[r].listReqs = Len(provider.eventPages)

\* C5 amended: get_event_invitees issues exactly N requests;
\* list_scheduled_events issues N page requests and, before them, one request
\* for the user whose URI the new client has not cached: N + 1 in all.
C5_Pagination ==
    \A r \in Procs :
        /\ WellFormed(provider.eventPages)
        /\ PagesFollowed(r)
        /\ ListReturned(rs[r]) => rs[r].listReqs = Len(provider.eventPages) + 1

C5_Witness ==
    \E r \in Procs :
        /\ rs[r].pc = "match" /\ rs[r].ei = 2
        /\ Len(provider.eventPages) = 2 /\ rs[r].pageReqs = 2
        /\ rs[r].invReqs = 2 /\ Len(rs[r].invitees) = 2

\* The invitees the provider holds whose email is not empty once normalized.
ExpectedBookings ==
    SumSeq([k \in 1..Len(ProviderEvents) |->
              Cardinality({i \in 1..Len(ProviderInvitees(ProviderEvents[k])) :
                 Normalize(ProviderInvitees(ProviderEvents[k])[i].email) # <<>>})])

Upserts(run) == SumSeq([i \in 1..Len(BookingsOf(run)) |-> BookingsOf(run)[i].upserts])

Updates(run) == SumSeq([i \in 1..Len(BookingsOf(run)) |-> BookingsOf(run)[i].updates])

MatchedCount(run) ==
    Cardinality({i \in 1..Len(BookingsOf(run)) : BookingsOf(run)[i].lead # NULL})

\* The scenario of one event with two invitees, one matching a lead that was
\* not booked when the run started, the other matching nothing.
OneMatchOneMiss(run) ==
    /\ Len(run.events) = 1 /\ Len(run.invitees) = 2 /\ Len(BookingsOf(run)) = 2
    /\ \E i, j \in 1..2 :
          /\ i # j
          /\ BookingsOf(run)[i].lead # NULL
          /\ ~run.leadsBefore[BookingsOf(run)[i].lead].booked
          /\ BookingsOf(run)[j].lead = NULL

\* C6: a run that returned without a failed event found one booking per
\* invitee with a non-empty normalized email, issued as many upserts, counted
\* in leads_matched the bookings a lead was returned for and in leads_updated
\* the lead-update writes; one match and one miss give 1 update, 2 upserts.
C6_Accounting ==
    \A r \in Procs :
        rs[r].pc \in {"returned", "done"} /\ rs[r].clean =>
            /\ rs[r].stats.bookings_found = ExpectedBookings
            /\ Upserts(rs[r]) = rs[r].stats.bookings_found
            /\ rs[r].stats.new_bookings = rs[r].stats.bookings_found
            /\ rs[r].stats.leads_matched = MatchedCount(rs[r])
            /\ rs[r].stats.leads_updated = Updates(rs[r])
            /\ rs[r].stats.leads_updated =
                  Cardinality({id \in LeadIds : leads[id] # rs[r].leadsBefore[id]})
            /\ rs[r].stats.events_processed = Len(ProviderEvents)
            /\ OneMatchOneMiss(rs[r]) =>
                  /\ rs[r].stats.leads_updated = 1 /\ Updates(rs[r]) = 1
                  /\ Upserts(rs[r]) = 2
                  /\ rs[r].stats.leads_matched = 1
                  /\ rs[r].stats.bookings_found = 2

C6_Witness ==
    \E r \in Procs :
        /\ rs[r].pc = "done" /\ rs[r].clean /\ OneMatchOneMiss(rs[r])
        /\ rs[r].stats.leads_updated = 1 /\ Upserts(rs[r]) = 2

\* C7: every booking gets at most one lead update and at most one upsert,
\* an unmatched booking no lead update, and every booking that was processed
\* to its end exactly one upsert, whether a lead matched or not.
C7_WritesPerBooking ==
    \A r \in Procs : \A k \in 1..Len(rs[r].ev) :
        LET e == rs[r].ev[k] IN
        /\ e.status = "ok" => Len(e.bk) = e.found
        /\ \A j \in 1..Len(e.bk) :
              /\ e.bk[j].upserts <= 1
              /\ e.bk[j].updates <= 1
              /\ e.bk[j].lead = NULL => e.bk[j].updates = 0
              /\ e.status = "ok" \/ j < Len(e.bk) => e.bk[j].upserts = 1

C7_Witness ==
    \E r \in Procs :
        /\ rs[r].pc = "done" /\ Len(rs[r].ev) = 1 /\ rs[r].ev[1].status = "ok"
        /\ Len(rs[r].ev[1].bk) = 2
        /\ rs[r].ev[1].bk[1].lead = NULL /\ rs[r].ev[1].bk[1].upserts = 1
        /\ rs[r].ev[1].bk[2].updates = 1 /\ rs[r].ev[1].bk[2].upserts = 1

\* Every listed event has been taken up when the run returns.
AllEventsVisited(run) ==
    run.pc \in {"returned", "done"} =>
        /\ Len(run.ev) = Len(run.events)
        /\ \A k \in 1..Len(run.ev) : run.ev[k].status # "open"
        /\ run.stats.events_processed =
              Cardinality({k \in 1..Len(run.ev) : run.ev[k].status = "ok"})

\* C8: an event whose invitees could not be fetched gets no match and no
\* write, the events after it are processed, and the run returns statistics.
C8_FetchFailureIsolated ==
    \A r \in Procs :
        /\ \A k \in 1..Len(rs[r].ev) :
              rs[r].ev[k].status = "fetch_failed" =>
                 rs[r].ev[k].bk = <<>> /\ rs[r].ev[k].found = 0
        /\ AllEventsVisited(rs[r])
        /\ rs[r].pc = "done" => rs[r].result = "stats"
        /\ rs[r].pc \in {"raised", "failed"} =>
              rs[r].exc \in {"user", "list", "analytics"}

C8_Witness ==
    \E r \in Procs :
        /\ rs[r].pc = "done" /\ rs[r].result = "stats" /\ Len(rs[r].ev) = 2
        /\ rs[r].ev[1].status = "fetch_failed"
        /\ rs[r].ev[2].status = "ok" /\ Len(rs[r].ev[2].bk) = 1
        /\ Len(bookings) = 1

\* C9: after a failed lead update or upsert the later bookings of the event
\* get no match, update or upsert, and the events after it are processed.
C9_WriteFailureIsolated ==
    \A r \in Procs :
        /\ \A k \in 1..Len(rs[r].ev) :
              LET e == rs[r].ev[k] IN
              e.status = "write_failed" =>
                 /\ Len(e.bk) \in 1..e.found
                 /\ e.bk[Len(e.bk)].upserts = 0
                 /\ \A j \in 1..(Len(e.bk) - 1) : e.bk[j].upserts = 1
        /\ rs[r].stats.new_bookings = Upserts(rs[r])
        /\ AllEventsVisited(rs[r])

C9_Witness ==
    \E r \in Procs :
        /\ rs[r].pc = "done" /\ Len(rs[r].ev) = 2
        /\ rs[r].ev[1].status = "write_failed"
        /\ rs[r].ev[1].found = 2 /\ Len(rs[r].ev[1].bk) = 1
        /\ rs[r].ev[2].status = "ok"

\* C10: when resolving the user or listing the events fails, the run raises:
\* no event is taken up, neither table is written, run_sync re-raises and
\* returns no statistics.
C10_OuterFailureFatal ==
    \A r \in Procs :
        rs[r].exc \in {"user", "list"} =>
            /\ rs[r].pc \in {"raised", "failed"}
            /\ rs[r].ev = <<>>
            /\ rs[r].stats = ZeroStats
            /\ bookings = rs[r].before
            /\ leads = rs[r].leadsBefore
            /\ rs[r].result # "stats"
            /\ rs[r].pc = "failed" => rs[r].result = "raised"

C10_Witness ==
    \E r \in Procs :
        /\ rs[r].pc = "failed" /\ rs[r].exc = "list" /\ rs[r].result = "raised"
        /\ rs[r].pageReqs = 2 /\ Len(rs[r].events) = 1

\* The run made no request to the provider and wrote neither table.
NoCalls(run) ==
    /\ run.userReqs = 0 /\ run.listReqs = 0 /\ run.pageReqs = 0 /\ run.invReqs = 0
    /\ run.ev = <<>>
    /\ bookings = run.before /\ leads = run.leadsBefore

\* C11: with a required setting missing, the worker process reports the
\* missing settings and ends with a nonzero status, having made no call to
\* the provider or to the datastore.
C11_ConfigFailure ==
    \A r \in Procs :
        rs[r].pc # "idle" /\ ~ValidateConfig(config) =>
            /\ rs[r].pc \in Finished
            /\ rs[r].reported = Missing(config)
            /\ NoCalls(rs[r])
            /\ rs[r].status # 0

\* The run is between its start and its return.
InProgress(run) == run.pc \notin {"idle", "returned", "raised"} \cup Finished

\* C12: whatever the interleaving of two overlapping runs over the same
\* provider data, the bookings table holds at most one row per
\* (event_uuid, invitee_email).
C12_NoDuplicateBookings == Cardinality(Keys(bookings)) = Len(bookings)

C12_Witness ==
    /\ \A r \in Procs : InProgress(rs[r]) /\ rs[r].stats.new_bookings >= 1
    /\ Len(bookings) = 1
    /\ \E r \in Procs : rs[r].pc = "match" /\ rs[r].bi = 2

\* C13: the lead update is decided on the snapshot match returned and is
\* written without a check of the row: every process about to write holds
\* a snapshot with booked = false, also when the row is booked by then, so
\* a lead that was not booked can be written once by each overlapping run,
\* the later writes landing on the booked row.
C13_LeadUpdateRace ==
    /\ \A r \in Procs :
          rs[r].pc = "update" => IsLead(rs[r].lead) /\ ~rs[r].lead.booked
    /\ \A id \in LeadIds :
          /\ leadWrites[id].count <= Cardinality(Procs)
          /\ leadWrites[id].onBooked <= leadWrites[id].count
          /\ leadWrites[id].count > 0 =>
                /\ leads[id].booked
                /\ leadWrites[id].onBooked = leadWrites[id].count - 1

\* Both runs read booked = false for the same lead and both wrote it.
C13_Witness ==
    \E id \in LeadIds :
        /\ leadWrites[id].count = 2 /\ leadWrites[id].onBooked = 1
        /\ \A r \in Procs :
              /\ rs[r].stats.leads_updated >= 1
              /\ \E i \in 1..Len(BookingsOf(rs[r])) :
                    BookingsOf(rs[r])[i].lead = id /\ BookingsOf(rs[r])[i].updates = 1

\* C14: the fallback scan is run if and only if the containment query
\* raised; when the query answers with rows, one of its rows is returned
\* (the first in the order the store gives them); when it answers with no
\* row, the outcome is not-found, without the scan and without an error.
C14_TwoTier ==
    probe.stage \in {"matched", "raised"} =>
        /\ probe.scanned <=> probe.primary = "raised"
        /\ probe.primary = "rows" <=>
              ~probe.scanned /\ PrimaryQuery(leads, probe.email) # {}
        /\ probe.primary = "rows" =>
              /\ probe.stage = "matched" /\ IsLead(probe.result)
              /\ probe.result.id \in PrimaryQuery(leads, probe.email)
        /\ probe.primary = "empty" =>
              /\ probe.stage = "matched" /\ probe.result = NoLead
              /\ PrimaryQuery(leads, probe.email) = {}

\* The query found no row and not-found was returned, although the scan
\* would have found a lead.
C14_Witness ==
    /\ probe.stage = "matched" /\ probe.primary = "empty" /\ ~probe.scanned
    /\ probe.result = NoLead
    /\ FallbackHits(leads, probe.email) # {}

\* C15: a call of match_booking_to_lead whose containment query raised
\* returns a lead or not-found; it does not raise.
C15_PrimaryFailureRecovered ==
    probe.primary = "raised" => probe.stage = "matched"

\* The sum of the counts of a dimension's buckets.
RECURSIVE SumBuckets(_)
SumBuckets(d) ==
    IF DOMAIN d = {} THEN 0
    ELSE LET key == CHOOSE k \in DOMAIN d : TRUE
         IN  d[key] + SumBuckets([k \in DOMAIN d \ {key} |-> d[k]])

\* Every row is counted once in the dimension: under its value, or under
\* "Unknown" when the value is null or empty.
CountedOnce(rows, field, d) ==
    /\ SumBuckets(d) = Len(rows)
    /\ \A i \in 1..Len(rows) :
          IF rows[i][field] \in {NULL, ""} THEN "Unknown" \in DOMAIN d
          ELSE rows[i][field] \in DOMAIN d
    /\ \A key \in DOMAIN d :
          d[key] = Cardinality({i \in 1..Len(rows) :
                      \/ rows[i][field] = key
                      \/ key = "Unknown" /\ rows[i][field] \in {NULL, ""}})

\* C16: get_booking_analytics counts every record in exactly one bucket of
\* each dimension: the counts of by_persona, of by_variant and of by_tech
\* each sum to total_bookings, and a record whose field is null is counted
\* under "Unknown".
C16_AggregationComplete ==
    analytics.stage = "returned" =>
        /\ analytics.out.total_bookings = Len(bookings)
        /\ CountedOnce(bookings, "persona", analytics.out.by_persona)
        /\ CountedOnce(bookings, "variant_id", analytics.out.by_variant)
        /\ CountedOnce(bookings, "main_tech", analytics.out.by_tech)

C16_Witness ==
    /\ analytics.stage = "returned" /\ analytics.out.total_bookings = 2
    /\ bookings[1].persona = NULL /\ bookings[2].persona = "P1"
    /\ analytics.out.by_persona = [key \in {"Unknown", "P1"} |-> 1]

\* C17: when the email_stats query raises, get_booking_analytics returns,
\* its result has no overall_conversion_rate, and the total, the matched
\* count and the breakdowns are those it returns when the query answers.
C17_OptionalRate ==
    analytics.stage = "returned" /\ analytics.source = "raised" =>
        /\ "overall_conversion_rate" \notin DOMAIN analytics.out
        /\ DOMAIN analytics.out =
              {"total_bookings", "matched_bookings", "by_persona", "by_variant",
               "by_tech"}
        /\ \A field \in DOMAIN analytics.out :
              analytics.out[field] = WithRate(Aggregate(bookings), sends)[field]

C17_Witness ==
    /\ analytics.stage = "returned" /\ analytics.source = "raised"
    /\ analytics.out.matched_bookings = 1 /\ analytics.out.total_bookings = 2
    /\ SumSeq(sends) > 0
    /\ "overall_conversion_rate" \in DOMAIN WithRate(Aggregate(bookings), sends)

\* C18: between the handling of an event and the start of the next one, the
\* pacing delay has been executed, whether the event's processing succeeded
\* or failed.
C18_Pacing ==
    \A r \in Procs : \A k \in 1..Len(rs[r].ev) :
        k < Len(rs[r].ev) => rs[r].ev[k].slept

\* C19: extract_booking_info emits, in the order of the invitees, one
\* booking for each invitee whose email is not empty once lower-cased and
\* trimmed, none for the others, and removes no duplicate.
C19_Extraction ==
    probe.stage \in {"extracted", "skipped"} =>
        /\ [i \in 1..Len(probe.found) |-> probe.found[i].invitee_email] =
              SelectSeq([i \in 1..Len(probe.invitees) |->
                            Strip(Lower(probe.invitees[i].email))],
                        LAMBDA email : email # <<>>)
        /\ \A i \in 1..Len(probe.found) :
              probe.found[i] = Booking(EventTemplates[1], probe.found[i].invitee_email)

\* Two invitees with the same address once normalized gave two bookings.
C19_Witness ==
    /\ probe.stage = "extracted"
    /\ Len(probe.invitees) = 2 /\ probe.invitees[1] # probe.invitees[2]
    /\ Len(probe.found) = 2
    /\ probe.found[1].invitee_email = probe.found[2].invitee_email

\* The bookings of a run whose match returned a lead not yet booked.
ToUpdate(run) ==
    {i \in 1..Len(BookingsOf(run)) :
        BookingsOf(run)[i].lead # NULL /\ ~BookingsOf(run)[i].booked}

\* C20 as stated: of the two writes of a booking whose lead matched and was
\* not booked, a failure leaves one done without the other: the lead updated
\* and the record missing, or the record written and the lead not updated.
C20_AsStated ==
    \A r \in Procs : \A k \in 1..Len(rs[r].ev) :
        LET e == rs[r].ev[k] IN
        /\ e.status = "write_failed"
        /\ e.bk[Len(e.bk)].lead # NULL /\ ~e.bk[Len(e.bk)].booked
        => e.bk[Len(e.bk)].updates + e.bk[Len(e.bk)].upserts = 1

\* C20 amended: the update comes first and nothing undoes it, so a failure
\* of the save leaves the lead updated with no booking record; the record
\* is never written for a matched, unbooked lead whose update was not made,
\* a failed update leaving neither write done.
C20_NoTransaction ==
    \A r \in Procs : \A i \in ToUpdate(rs[r]) :
        LET b == BookingsOf(rs[r])[i] IN
        /\ b.upserts = 1 => b.updates = 1
        /\ b.updates = 1 => leads[b.lead].booked /\ leadWrites[b.lead].count >= 1

\* The lead is updated and the run is over with no booking record written.
C20_Witness ==
    \E r \in Procs : \E i \in ToUpdate(rs[r]) :
        /\ rs[r].pc = "done" /\ ~rs[r].prevClean /\ rs[r].before = <<>>
        /\ BookingsOf(rs[r])[i].updates = 1 /\ BookingsOf(rs[r])[i].upserts = 0
        /\ leads[BookingsOf(rs[r])[i].lead].booked
        /\ ~rs[r].leadsBefore[BookingsOf(rs[r])[i].lead].booked
        /\ bookings = <<>>

\* The bookings extract_booking_info finds in the k-th event of the provider.
EventBookings(k) ==
    ExtractBookingInfo(ProviderEvents[k], ProviderInvitees(ProviderEvents[k]))

\* The rows of the bookings table with the key of a booking.
RowsOf(booking) ==
    {n \in 1..Len(bookings) : Key(bookings[n]) = Key(booking)}

\* The lead-update writes the run issued to a lead.
UpdatesTo(run, id) ==
    Cardinality({n \in 1..Len(BookingsOf(run)) :
                   BookingsOf(run)[n].lead = id /\ BookingsOf(run)[n].updates = 1})

Pairs(run) ==
    UNION { {<<k, i>> : i \in 1..Len(run.ev[k].bk)} : k \in 1..Len(run.ev) }

\* No later booking of the run has the key of this one.
LastOfKey(run, p) ==
    \A q \in Pairs(run) :
        (q[1] > p[1] \/ (q[1] = p[1] /\ q[2] > p[2])) =>
            Key(EventBookings(q[1])[q[2]]) # Key(EventBookings(p[1])[p[2]])

\* The row carries the id, the domain and the generated_email fields of the
\* lead with this id, or nulls for no lead and for no generated_email.
SnapshotOf(row, id) ==
    IF id = NULL
    THEN /\ row.matched_lead_id = NULL /\ row.matched_domain = NULL
         /\ row.persona = NULL /\ row.persona_email = NULL
         /\ row.variant_id = NULL /\ row.main_tech = NULL
    ELSE /\ row.matched_lead_id = id /\ row.matched_domain = leads[id].domain
         /\ IF leads[id].generated_email.present
            THEN /\ row.persona = leads[id].generated_email.persona
                 /\ row.persona_email = leads[id].generated_email.persona_email
                 /\ row.variant_id = leads[id].generated_email.variant_id
                 /\ row.main_tech = leads[id].generated_email.main_tech
            ELSE /\ row.persona = NULL /\ row.persona_email = NULL
                 /\ row.variant_id = NULL /\ row.main_tech = NULL

\* C22: when a run has returned without a failed event, the row of every
\* key carries the snapshot of the lead match returned for the last booking
\* upserted under that key: its id, its domain and its generated_email
\* fields, nulls when no lead matched or the lead has no generated_email;
\* the analytics count as matched the rows whose booking matched a lead.
C22_SnapshotContent ==
    \A r \in Procs :
        rs[r].pc \in {"returned", "done"} /\ rs[r].clean =>
            /\ \A p \in Pairs(rs[r]) :
                  LastOfKey(rs[r], p) =>
                     \A n \in RowsOf(EventBookings(p[1])[p[2]]) :
                        SnapshotOf(bookings[n], rs[r].ev[p[1]].bk[p[2]].lead)
            /\ MatchedBookings(bookings) =
                  Cardinality({p \in Pairs(rs[r]) :
                      LastOfKey(rs[r], p) /\ rs[r].ev[p[1]].bk[p[2]].lead # NULL})
            /\ Len(bookings) =
                  Cardinality({p \in Pairs(rs[r]) : LastOfKey(rs[r], p)})

C22_Witness ==
    \E r \in Procs :
        /\ rs[r].pc = "done" /\ rs[r].clean /\ Len(bookings) = 2
        /\ \E n, m \in 1..2 :
              /\ bookings[n].matched_lead_id = "L1" /\ bookings[n].persona = "P1"
              /\ bookings[n].matched_domain = "one.com"
              /\ bookings[m].matched_lead_id = NULL /\ bookings[m].persona = NULL
        /\ MatchedBookings(bookings) = 1

\* C23: over events whose URI is absent or has no "/", every booking has
\* the empty event_uuid and is persisted all the same; the bookings of two
\* such events with the same email share the key ("", email) and end as one
\* row, that of the later upsert.
C23_DegradedUuid ==
    /\ \A n \in 1..Len(bookings) : bookings[n].event_uuid = <<>>
    /\ \A r \in Procs :
          /\ \A i \in 1..Len(rs[r].bookings) : rs[r].bookings[i].event_uuid = <<>>
          /\ rs[r].pc \in {"returned", "done"} /\ rs[r].clean =>
                /\ rs[r].stats.new_bookings = ExpectedBookings
                /\ \A p \in Pairs(rs[r]) :
                      /\ rs[r].ev[p[1]].bk[p[2]].upserts = 1
                      /\ Cardinality(RowsOf(EventBookings(p[1])[p[2]])) = 1
                      /\ LastOfKey(rs[r], p) =>
                            \A n \in RowsOf(EventBookings(p[1])[p[2]]) :
                               /\ bookings[n].event_uri = ProviderEvents[p[1]].uri
                               /\ bookings[n].event_name = ProviderEvents[p[1]].name
                /\ Len(bookings) =
                      Cardinality({EventBookings(p[1])[p[2]].invitee_email :
                                      p \in Pairs(rs[r])})

\* Two events, the same invitee email in each: two upserts, one row, the
\* second event's.
C23_Witness ==
    \E r \in Procs :
        /\ rs[r].pc = "done" /\ rs[r].clean /\ ~rs[r].prevClean
        /\ Len(rs[r].ev) = 2 /\ rs[r].stats.new_bookings = 2
        /\ EventBookings(1)[1].invitee_email = EventBookings(2)[1].invitee_email
        /\ Len(bookings) = 1
        /\ bookings[1].event_uri = <<"v">> /\ bookings[1].event_uuid = <<>>

\* C24: in every state of a run leads_updated <= leads_matched <=
\* bookings_found, new_bookings <= bookings_found and events_processed <=
\* the number of events listed; when the run has returned, events_processed
\* is the number of events whose processing raised nothing, and new_bookings
\* is below bookings_found only if the processing of some event failed after
\* its extraction.
C24_Statistics ==
    \A r \in Procs :
        LET stats == rs[r].stats IN
        /\ stats.leads_updated <= stats.leads_matched
        /\ stats.leads_matched <= stats.bookings_found
        /\ stats.new_bookings <= stats.bookings_found
        /\ stats.events_processed <= Len(rs[r].events)
        /\ rs[r].pc \in {"returned", "done"} =>
              /\ stats.events_processed =
                    Cardinality({k \in 1..Len(rs[r].events) :
                                    rs[r].ev[k].status = "ok"})
              /\ stats.new_bookings < stats.bookings_found =>
                    \E k \in 1..Len(rs[r].ev) :
                        /\ rs[r].ev[k].status \in {"match_failed", "write_failed"}
                        /\ rs[r].ev[k].found > 0

\* A run whose only event failed at the second booking's save.
C24_Witness ==
    \E r \in Procs :
        /\ rs[r].pc = "done" /\ Len(rs[r].events) = 1
        /\ rs[r].ev[1].status = "write_failed"
        /\ rs[r].stats.bookings_found = 2 /\ rs[r].stats.new_bookings = 1
        /\ rs[r].stats.leads_matched = 1 /\ rs[r].stats.leads_updated = 1
        /\ rs[r].stats.events_processed = 0

\* C25: whatever an earlier run left behind, a later run that returned
\* without a failed event ends with one row for every booking of every
\* event, and has issued no update to a lead that was marked booked: such
\* a lead's row is as it was when the run started.
C25_Recovery ==
    \A r \in Procs :
        rs[r].pc \in {"returned", "done"} /\ rs[r].clean =>
            /\ \A k \in 1..Len(ProviderEvents) : \A i \in 1..Len(EventBookings(k)) :
                  Cardinality(RowsOf(EventBookings(k)[i])) = 1
            /\ \A id \in LeadIds :
                  /\ leadWrites[id].onBooked = 0
                  /\ rs[r].leadsBefore[id].booked =>
                        UpdatesTo(rs[r], id) = 0 /\ leads[id] = rs[r].leadsBefore[id]

\* An earlier run updated a lead and wrote no record at all; the run after
\* it wrote both records and left the lead alone.
C25_Witness ==
    \E r \in Procs : \E id \in LeadIds :
        /\ rs[r].pc = "done" /\ rs[r].clean /\ ~rs[r].prevClean
        /\ rs[r].before = <<>>
        /\ rs[r].leadsBefore[id].booked /\ leadWrites[id].count = 1
        /\ rs[r].leadsBefore[id].calendly_invitee_email = <<"a">>
        /\ UpdatesTo(rs[r], id) = 0
        /\ Len(EventBookings(1)) = 2 /\ Len(bookings) = 2
        /\ \E n \in 1..2 : bookings[n].matched_lead_id = id

\* The fields of a lead row that update_data does not name.
Frame(row) ==
    [id |-> row.id, domain |-> row.domain, emails |-> row.emails,
     emailed |-> row.emailed, generated_email |-> row.generated_email]

\* C26: a step of a sync run changes a lead row only if the row's id is the
\* id of the lead match returned for the booking the run is at, and then it
\* changes none of id, domain, emails, emailed and generated_email: it
\* writes booked, booked_at and the booking's URI, email and name.
C26_LeadFrame ==
    [][\A id \in LeadIds :
          /\ Frame(leads'[id]) = Frame(leads[id])
          /\ leads'[id] # leads[id] =>
                \E r \in Procs :
                    /\ rs[r].pc = "update" /\ rs[r].lead.id = id
                    /\ rs[r].ev[Len(rs[r].ev)].bk[rs[r].bi].lead = id
                    /\ leads'[id] =
                          [leads[id] EXCEPT
                             !.booked = TRUE,
                             !.booked_at = rs[r].bookings[rs[r].bi].event_start_time,
                             !.calendly_event_uri = rs[r].bookings[rs[r].bi].event_uri,
                             !.calendly_invitee_email =
                                rs[r].bookings[rs[r].bi].invitee_email,
                             !.calendly_event_name = rs[r].bookings[rs[r].bi].event_name]]_vars

\* One lead was matched and written; the other, holding the same email,
\* was not matched and is as it was.
C26_Witness ==
    \E r \in Procs :
        /\ rs[r].pc = "done" /\ rs[r].clean
        /\ leadWrites["L1"].count = 1 /\ leadWrites["L2"].count = 0
        /\ leads["L1"].booked /\ leads["L1"].calendly_invitee_email = <<"a">>
        /\ leads["L1"].emails = << <<"a">> >> /\ ~leads["L1"].emailed
        /\ leads["L1"].generated_email.present
        /\ leads["L2"] = rs[r].leadsBefore["L2"] /\ ~leads["L2"].booked
        /\ MatchedIds(bookings) = {"L1"}

====
